---- MODULE Spec2Model ----
(***************************************************************************)
(* twinnerDownloader.py: the pyramid tile engine.                          *)
(*                                                                         *)
(*   Folder.__init__   derives the level list of a deep-zoom pyramid       *)
(*   Folder.download   fetches the tiles of one level into a cache folder  *)
(*   Folder.join_tiles pastes the cached tiles into one raster             *)
(*   do_item_folder    runs the three for one pyramid folder and saves     *)
(*                                                                         *)
(* Spec        models repeated invocations of do_item_folder on the same   *)
(*             cache folder, tile by tile, with the HTTP responses, the    *)
(*             file system and a crash of the process as the environment.  *)
(* SpecPyramid applies the pure level and grid computations to inputs      *)
(*             drawn from a wider range.                                   *)
(***************************************************************************)
EXTENDS Integers, Sequences, FiniteSets, TLC

\* ------------------------------------------------------------------ bounds
\* largest base width/height of Spec
MaxDim == 3
\* largest tile size of Spec
MaxTile == 2
\* largest number of tiles of the chosen level in Spec
MaxTiles == 4
\* number of invocations of do_item_folder on the same cache folder
MaxRuns == 2
\* number of faults of the environment over the history: non-success
\* responses, failed connections, crashes of the process
MaxFaults == 1
\* largest base width/height of SpecPyramid
MaxBase == 6
\* largest tile size of SpecPyramid
MaxGridTile == 4

VARIABLES
    width,          \* metadata["width"]
    height,         \* metadata["height"]
    tile_size,      \* metadata["tileSize"]
    args_level,     \* args.level: <<>> is None, <<l>> is --level l
    tileMode,       \* remote host: how the tiles it serves are sized
    errImage,       \* remote host: whether its error body decodes as an image
    levels,         \* Folder.levels
    level_index,    \* do_item_folder's level_index
    columns,        \* download/join_tiles: columns
    rows,           \* download/join_tiles: rows
    force_download, \* Folder.force_download of the running invocation
    pc,             \* where the process is
    k,              \* position of the download loops in the tile order
    blob,           \* the response content held between get and write
    cache,          \* the cache folder: path -> file content
    out,            \* the output file written by image.save
    result,         \* how the last invocation ended
    runs,           \* history: one record per invocation started
    getsRun,        \* history: GETs issued per path by the running invocation
    getsTotal,      \* history: GETs issued per path since the cache was empty
    resp,           \* history: the response content received per path in this run
    cacheAtStart,   \* history: the cache folder when this invocation started
    httpErr,        \* history: a non-success status was received in this run
    faults          \* history: faults of the environment so far

vars == <<width, height, tile_size, args_level, tileMode, errImage, levels,
          level_index, columns, rows, force_download, pc, k, blob, cache, out,
          result, runs, getsRun, getsTotal, resp, cacheAtStart, httpErr, faults>>

\* ------------------------------------------------------------ arithmetic
\* math.ceil(n * 0.5)
CeilHalf(n) == -((-n) \div 2)

\* math.ceil(a / b) for b # 0 (Python true division, then ceiling)
CeilDiv(a, b) == IF b > 0 THEN -((-a) \div b) ELSE -(a \div (-b))

Min(a, b) == IF a < b THEN a ELSE b

\* ------------------------------------------------------ Folder.__init__
RECURSIVE LevelLoop(_, _, _)
\* the while loop: append the current size, halve with ceiling
LevelLoop(w, h, acc) ==
    IF w > 1 \/ h > 1
    THEN LevelLoop(CeilHalf(w), CeilHalf(h), Append(acc, [width |-> w, height |-> h]))
    ELSE acc

\* list.reverse()
Reverse(s) == [i \in 1..Len(s) |-> s[Len(s) + 1 - i]]

\* a loop that stops as soon as one dimension reaches 1
RECURSIVE LevelLoopAnd(_, _, _)
LevelLoopAnd(w, h, acc) ==
    IF w > 1 /\ h > 1
    THEN LevelLoopAnd(CeilHalf(w), CeilHalf(h), Append(acc, [width |-> w, height |-> h]))
    ELSE acc

FolderLevelsAnd(w, h) == Reverse(LevelLoopAnd(w, h, <<>>))

\* self.levels after construction
FolderLevels(w, h) == Reverse(LevelLoop(w, h, <<>>))

\* ------------------------------------------------- grid of one level
\* columns computed with floor division
ColumnsFloor(level, ts) == level.width \div ts

\* columns = math.ceil(level["width"] / self.tile_size)
Columns(level, ts) == CeilDiv(level.width, ts)

\* rows = math.ceil(level["height"] / self.tile_size)
Rows(level, ts) == CeilDiv(level.height, ts)

\* for x in range(columns): for y in range(rows): the tiles in loop order
TileSeq(cols, rws) ==
    IF cols <= 0 \/ rws <= 0 THEN <<>>
    ELSE [i \in 1..(cols * rws) |-> <<(i - 1) \div rws, (i - 1) % rws>>]

\* level_index = args.level if args.level is not None else len(folder.levels) - 1
LevelIndex(lv, al) == IF al = <<>> THEN Len(lv) - 1 ELSE al[1]

\* self.levels[level_index] is defined (else IndexError); Python accepts
\* negative indices down to -len
ValidIndex(lv, i) == -Len(lv) <= i /\ i < Len(lv)

\* self.levels[level_index]
LevelAt(lv, i) == IF i >= 0 THEN lv[i + 1] ELSE lv[Len(lv) + i + 1]

\* the part of the canvas the paste of tile (x, y) is meant to fill: origin
\* (x * tile_size, y * tile_size), cut at the canvas edge
TileRect(level, ts, x, y) ==
    [ox |-> x * ts, oy |-> y * ts,
     w |-> Min(ts, level.width - x * ts),
     h |-> Min(ts, level.height - y * ts)]

\* ------------------------------------------------------ files and bodies
Blank == <<-1, -1>>
Placeholder == <<-2, -2>>

\* no file at the path
Absent == [kind |-> "absent", st |-> 0, v |-> 0, w |-> 0, h |-> 0, tag |-> Blank]
\* a file just opened with "wb": it exists and holds nothing
Empty == [kind |-> "empty", st |-> 0, v |-> 0, w |-> 0, h |-> 0, tag |-> Blank]
\* a file holding a proper prefix of body b
Partial(b) == [b EXCEPT !.kind = "partial"]

\* url = "{}/{}/{}_{}.{}".format(self.path, level_index + 1, x, y, self.format)
Url(li, x, y) == <<li + 1, x, y>>

\* outPath = os.path.join(image_folder, "{}_{}.{}".format(x, y, self.format))
OutPath(x, y) == <<x, y>>

Coord == 0..(MaxTiles - 1)
PathSet == {OutPath(x, y) : x \in Coord, y \in Coord}

\* os.path.exists(outPath)
Exists(c, p) == c[p].kind # "absent"

\* the content the remote host answers a GET of url with: status st, bytes of
\* version v. A 200 body is the tile image of the level the url numbers, sized
\* by tileMode; an error body is a placeholder image or no image at all.
ServerBody(url, st, v, lv, ts, mode, errimg) ==
    LET r == TileRect(lv[url[1]], ts, url[2], url[3])
    IN  IF st = 200
        THEN [kind |-> "body", st |-> st, v |-> v,
              w |-> IF mode = "rect" THEN r.w ELSE 1,
              h |-> IF mode = "rect" THEN r.h ELSE 1,
              tag |-> <<url[2], url[3]>>]
        ELSE [kind |-> "body", st |-> st, v |-> v,
              w |-> IF errimg THEN ts ELSE 0,
              h |-> IF errimg THEN ts ELSE 0,
              tag |-> Placeholder]

\* --------------------------------------------------- Folder.join_tiles
\* Image.new("RGB", (w, h))
NewImage(w, h) ==
    [w |-> w, h |-> h, px |-> [p \in (0..(w - 1)) \X (0..(h - 1)) |-> Blank]]

\* result.paste(src_image, (ox, oy)): the part of src inside the canvas
Paste(canvas, src, ox, oy) ==
    [canvas EXCEPT !.px =
        [p \in DOMAIN canvas.px |->
            IF /\ ox <= p[1] /\ p[1] < ox + src.w
               /\ oy <= p[2] /\ p[2] < oy + src.h
            THEN src.tag ELSE canvas.px[p]]]

\* Image.open(out_path) and the load in paste: the error raised, "" if none
OpenError(c) ==
    IF c.kind = "absent" THEN "FileNotFoundError"
    ELSE IF c.kind # "body" \/ c.w <= 0 \/ c.h <= 0 THEN "OSError"
    ELSE ""

\* the paste loop with the two coordinates of the offset exchanged
RECURSIVE PasteLoopSwapped(_, _, _, _, _)
PasteLoopSwapped(canvas, seq, i, ts, c) ==
    IF i > Len(seq) THEN canvas
    ELSE PasteLoopSwapped(
            Paste(canvas, c[OutPath(seq[i][1], seq[i][2])], seq[i][2] * ts, seq[i][1] * ts),
            seq, i + 1, ts, c)

\* the loops of join_tiles from tile i on
RECURSIVE PasteLoop(_, _, _, _, _)
PasteLoop(canvas, seq, i, ts, c) ==
    IF i > Len(seq) THEN canvas
    ELSE PasteLoop(
            Paste(canvas, c[OutPath(seq[i][1], seq[i][2])], seq[i][1] * ts, seq[i][2] * ts),
            seq, i + 1, ts, c)

\* the error join_tiles raises on cache c: that of the first tile in loop
\* order that cannot be opened, "" if all can
JoinError(seq, c) ==
    LET bad == {i \in 1..Len(seq) : OpenError(c[OutPath(seq[i][1], seq[i][2])]) # ""}
        first == CHOOSE i \in bad : \A j \in bad : i <= j
    IN  IF bad = {} THEN "" ELSE OpenError(c[OutPath(seq[first][1], seq[first][2])])

JoinTilesSwapped(level, ts, cols, rws, c) ==
    PasteLoopSwapped(NewImage(level.width, level.height), TileSeq(cols, rws), 1, ts, c)

\* the raster join_tiles returns when it raises nothing
JoinTiles(level, ts, cols, rws, c) ==
    PasteLoop(NewImage(level.width, level.height), TileSeq(cols, rws), 1, ts, c)

\* image.save has written nothing yet
NoImage == [w |-> 0, h |-> 0, px |-> <<>>]

\* ------------------------------------------------------ Folder.download
\* a fetch condition that ignores the cache
NeedsFetchAlways(c, p, force) == TRUE

\* a fetch condition that ignores force_download
NeedsFetchNoForce(c, p, force) == ~Exists(c, p)

\* if not exists(outPath) or self.force_download
NeedsFetch(c, p, force) == ~Exists(c, p) \/ force

\* args.level: not given (the largest level), or --level 0 (the smallest)
LevelArgs == {<<>>, <<0>>}

\* the number of tiles do_item_folder will visit for these inputs
TileCount(w, h, ts, al) ==
    LET lv == FolderLevels(w, h)
        li == LevelIndex(lv, al)
    IN  IF ts = 0 \/ ~ValidIndex(lv, li) THEN 0
        ELSE Len(TileSeq(Columns(LevelAt(lv, li), ts), Rows(LevelAt(lv, li), ts)))

\* the tiles of the running invocation in loop order, and the current one
Tiles == TileSeq(columns, rows)
CurPath == OutPath(Tiles[k][1], Tiles[k][2])
CurUrl == Url(level_index, Tiles[k][1], Tiles[k][2])

NoGets == [p \in PathSet |-> 0]
NoResp == [p \in PathSet |-> Absent]

\* ----------------------------------------------------------------- Init
Init ==
    /\ width \in 1..MaxDim
    /\ height \in 1..MaxDim
    /\ tile_size \in (-1)..MaxTile
    /\ args_level \in LevelArgs
    /\ TileCount(width, height, tile_size, args_level) <= MaxTiles
    /\ tileMode \in {"rect", "small"}
    /\ errImage \in BOOLEAN
    /\ levels = <<>>
    /\ level_index = 0
    /\ columns = 0
    /\ rows = 0
    /\ force_download = FALSE
    /\ pc = "idle"
    /\ k = 1
    /\ blob = Absent
    /\ cache = [p \in PathSet |-> Absent]
    /\ out = NoImage
    /\ result = "none"
    /\ runs = <<>>
    /\ getsRun = NoGets
    /\ getsTotal = NoGets
    /\ resp = NoResp
    /\ cacheAtStart = [p \in PathSet |-> Absent]
    /\ httpErr = FALSE
    /\ faults = 0

\* what every start of do_item_folder does: construct the Folder, pick the level
Begin(force) ==
    /\ pc = "idle"
    /\ Len(runs) < MaxRuns
    /\ levels' = FolderLevels(width, height)
    /\ level_index' = LevelIndex(levels', args_level)
    /\ force_download' = force
    /\ getsRun' = NoGets
    /\ resp' = NoResp
    /\ cacheAtStart' = cache
    /\ httpErr' = FALSE
    /\ k' = 1
    /\ UNCHANGED <<width, height, tile_size, args_level, tileMode, errImage,
                   blob, cache, out, getsTotal, faults>>

\* do_item_folder up to the first tile of download
StartDownload ==
    \E force \in BOOLEAN :
        /\ Begin(force)
        /\ ValidIndex(levels', level_index')
        /\ tile_size # 0
        /\ columns' = Columns(LevelAt(levels', level_index'), tile_size)
        /\ rows' = Rows(LevelAt(levels', level_index'), tile_size)
        /\ pc' = "download"
        /\ result' = "running"
        /\ runs' = Append(runs, [force |-> force, done |-> FALSE])

\* do_item_folder when self.levels[level_index] raises IndexError
StartIndexError ==
    \E force \in BOOLEAN :
        /\ Begin(force)
        /\ ~ValidIndex(levels', level_index')
        /\ pc' = "idle"
        /\ result' = "IndexError"
        /\ runs' = Append(runs, [force |-> force, done |-> FALSE])
        /\ UNCHANGED <<columns, rows>>

\* do_item_folder when level["width"] / self.tile_size raises ZeroDivisionError
StartZeroDivision ==
    \E force \in BOOLEAN :
        /\ Begin(force)
        /\ ValidIndex(levels', level_index')
        /\ tile_size = 0
        /\ pc' = "idle"
        /\ result' = "ZeroDivisionError"
        /\ runs' = Append(runs, [force |-> force, done |-> FALSE])
        /\ UNCHANGED <<columns, rows>>

\* one pass of the inner loop when the file exists and nothing is forced
CacheHit ==
    /\ pc = "download"
    /\ k <= Len(Tiles)
    /\ ~NeedsFetch(cache, CurPath, force_download)
    /\ k' = k + 1
    /\ UNCHANGED <<width, height, tile_size, args_level, tileMode, errImage, levels,
                   level_index, columns, rows, force_download, pc, blob, cache, out,
                   result, runs, getsRun, getsTotal, resp, cacheAtStart, httpErr, faults>>

\* session.get(url).content answered with status st, then open(outPath, "wb")
Fetch(st) ==
    /\ pc = "download"
    /\ k <= Len(Tiles)
    /\ NeedsFetch(cache, CurPath, force_download)
    /\ blob' = ServerBody(CurUrl, st, Len(runs), levels, tile_size, tileMode, errImage)
    /\ cache' = [cache EXCEPT ![CurPath] = Empty]
    /\ getsRun' = [getsRun EXCEPT ![CurPath] = @ + 1]
    /\ getsTotal' = [getsTotal EXCEPT ![CurPath] = @ + 1]
    /\ resp' = [resp EXCEPT ![CurPath] = blob']
    /\ httpErr' = (httpErr \/ st # 200)
    /\ st # 200 => faults < MaxFaults
    /\ faults' = IF st = 200 THEN faults ELSE faults + 1
    /\ pc' = "opened"
    /\ UNCHANGED <<width, height, tile_size, args_level, tileMode, errImage, levels,
                   level_index, columns, rows, force_download, k, out, result, runs,
                   cacheAtStart>>

\* the GET is answered 200
FetchOk == Fetch(200)

\* the GET is answered with a non-success status
FetchHttpError == Fetch(404)

\* the GET raises (no connection, timeout): download propagates the exception
FetchNetworkFailure ==
    /\ pc = "download"
    /\ k <= Len(Tiles)
    /\ NeedsFetch(cache, CurPath, force_download)
    /\ faults < MaxFaults
    /\ faults' = faults + 1
    /\ getsRun' = [getsRun EXCEPT ![CurPath] = @ + 1]
    /\ getsTotal' = [getsTotal EXCEPT ![CurPath] = @ + 1]
    /\ pc' = "idle"
    /\ result' = "ConnectionError"
    /\ UNCHANGED <<width, height, tile_size, args_level, tileMode, errImage, levels,
                   level_index, columns, rows, force_download, k, blob, cache, out,
                   runs, resp, cacheAtStart, httpErr>>

\* file.write(blob) and the close at the end of the with block
WriteBlob ==
    /\ pc = "opened"
    /\ cache' = [cache EXCEPT ![CurPath] = blob]
    /\ k' = k + 1
    /\ pc' = "download"
    /\ UNCHANGED <<width, height, tile_size, args_level, tileMode, errImage, levels,
                   level_index, columns, rows, force_download, blob, out, result, runs,
                   getsRun, getsTotal, resp, cacheAtStart, httpErr, faults>>

\* the process dies between open and the end of write: the file keeps what
\* had reached it, nothing or a prefix of the body
CrashInWrite ==
    /\ pc = "opened"
    /\ faults < MaxFaults
    /\ faults' = faults + 1
    /\ \E c \in {Empty, Partial(blob)} : cache' = [cache EXCEPT ![CurPath] = c]
    /\ pc' = "idle"
    /\ result' = "crash"
    /\ UNCHANGED <<width, height, tile_size, args_level, tileMode, errImage, levels,
                   level_index, columns, rows, force_download, k, blob, out, runs,
                   getsRun, getsTotal, resp, cacheAtStart, httpErr>>

\* download returns; join_tiles opens and pastes every tile; image.save
JoinAndSave ==
    /\ pc = "download"
    /\ k > Len(Tiles)
    /\ JoinError(Tiles, cache) = ""
    /\ out' = JoinTiles(LevelAt(levels, level_index), tile_size, columns, rows, cache)
    /\ result' = "saved"
    /\ pc' = "idle"
    /\ runs' = [runs EXCEPT ![Len(runs)].done = TRUE]
    /\ UNCHANGED <<width, height, tile_size, args_level, tileMode, errImage, levels,
                   level_index, columns, rows, force_download, k, blob, cache,
                   getsRun, getsTotal, resp, cacheAtStart, httpErr, faults>>

\* download returns; join_tiles raises on a tile it cannot open
JoinFails ==
    /\ pc = "download"
    /\ k > Len(Tiles)
    /\ JoinError(Tiles, cache) # ""
    /\ result' = JoinError(Tiles, cache)
    /\ pc' = "idle"
    /\ runs' = [runs EXCEPT ![Len(runs)].done = TRUE]
    /\ UNCHANGED <<width, height, tile_size, args_level, tileMode, errImage, levels,
                   level_index, columns, rows, force_download, k, blob, cache, out,
                   getsRun, getsTotal, resp, cacheAtStart, httpErr, faults>>

Next ==
    \/ StartDownload
    \/ StartIndexError
    \/ StartZeroDivision
    \/ CacheHit
    \/ FetchOk
    \/ FetchHttpError
    \/ FetchNetworkFailure
    \/ WriteBlob
    \/ CrashInWrite
    \/ JoinAndSave
    \/ JoinFails

Spec == Init /\ [][Next]_vars

\* ---------------------------------------------------------- SpecPyramid
\* the inputs of the level and grid computations, nothing yet computed
InitPyramid ==
    /\ width \in (-1)..MaxBase
    /\ height \in (-1)..MaxBase
    /\ tile_size \in (-1)..MaxGridTile
    /\ args_level = <<>>
    /\ tileMode = "rect"
    /\ errImage = FALSE
    /\ levels = <<>>
    /\ level_index = 0
    /\ columns = 0
    /\ rows = 0
    /\ force_download = FALSE
    /\ pc = "new"
    /\ k = 1
    /\ blob = Absent
    /\ cache = [p \in PathSet |-> Absent]
    /\ out = NoImage
    /\ result = "none"
    /\ runs = <<>>
    /\ getsRun = NoGets
    /\ getsTotal = NoGets
    /\ resp = NoResp
    /\ cacheAtStart = [p \in PathSet |-> Absent]
    /\ httpErr = FALSE
    /\ faults = 0

\* Folder(path, width, height, tile_size, format, force_download)
NewFolder ==
    /\ pc = "new"
    /\ levels' = FolderLevels(width, height)
    /\ pc' = "folder"
    /\ UNCHANGED <<width, height, tile_size, args_level, tileMode, errImage,
                   level_index, columns, rows, force_download, k, blob, cache, out,
                   result, runs, getsRun, getsTotal, resp, cacheAtStart, httpErr, faults>>

\* the first three statements of download and of join_tiles, for level i
Grid(i) ==
    /\ pc = "folder"
    /\ ValidIndex(levels, i)
    /\ tile_size # 0
    /\ level_index' = i
    /\ columns' = Columns(LevelAt(levels, i), tile_size)
    /\ rows' = Rows(LevelAt(levels, i), tile_size)
    /\ pc' = "grid"
    /\ UNCHANGED <<width, height, tile_size, args_level, tileMode, errImage, levels,
                   force_download, k, blob, cache, out, result, runs, getsRun,
                   getsTotal, resp, cacheAtStart, httpErr, faults>>

PickLevel == \E i \in 0..(Len(levels) - 1) : Grid(i)

NextPyramid ==
    \/ NewFolder
    \/ PickLevel

SpecPyramid == InitPyramid /\ [][NextPyramid]_vars

\* ================================================================ claims
\* the level the running (or last) invocation works on
CurLevel == LevelAt(levels, level_index)

\* every tile of the level, as paths
TilePaths == {OutPath(Tiles[i][1], Tiles[i][2]) : i \in 1..Len(Tiles)}

\* the first two invocations both ran download to its end, neither forced
TwoPlainRuns ==
    /\ Len(runs) = 2
    /\ runs[1].done /\ ~runs[1].force
    /\ runs[2].done /\ ~runs[2].force

\* C1: two successive runs of download with force_download = false, from an
\* empty cache, both returning: every tile of the level was fetched exactly
\* once in total, not at all by the second run, its file exists at the same
\* path and holds what it held when the second run started.
C1_Idempotent ==
    TwoPlainRuns =>
        \A p \in TilePaths :
            /\ getsTotal[p] = 1
            /\ getsRun[p] = 0
            /\ Exists(cache, p)
            /\ cache[p] = cacheAtStart[p]

C1_Witness == TwoPlainRuns /\ Len(Tiles) >= 2 /\ result = "saved"

\* C2: a non-success status for a tile ends the invocation with a fetch
\* error and without a saved raster.
C2_FetchErrorAborts ==
    httpErr => (result # "saved" /\ (pc = "idle" => result = "FetchError"))

\* C3: a file of the cache folder never holds the body of a non-success
\* response.
C3_CacheValid ==
    \A p \in PathSet : cache[p].kind = "body" => cache[p].st = 200

\* C4: outside the write itself, no file of the cache folder is empty or
\* holds part of a body, so no later run can find one.
C4_AtomicWrite ==
    pc # "opened" => \A p \in PathSet : cache[p].kind \notin {"empty", "partial"}

\* the last invocation was forced and ran download to its end
ForcedRunDone ==
    /\ Len(runs) >= 1
    /\ runs[Len(runs)].done
    /\ runs[Len(runs)].force

\* C5: after a run of download with force_download = true, every tile of the
\* level was fetched exactly once by that run, whether or not its file
\* existed, and its file holds the body of that response.
C5_ForcedRefresh ==
    ForcedRunDone =>
        \A p \in TilePaths :
            /\ getsRun[p] = 1
            /\ resp[p].kind = "body"
            /\ cache[p] = resp[p]

C5_Witness ==
    /\ ForcedRunDone
    /\ Len(Tiles) >= 2
    /\ \A p \in TilePaths : Exists(cacheAtStart, p) /\ cacheAtStart[p] # cache[p]

\* the rectangles of the grid of the picked level
GridRects ==
    {TileRect(CurLevel, tile_size, x, y) : x \in 0..(columns - 1), y \in 0..(rows - 1)}

Overlap(r1, r2) ==
    /\ r1.ox < r2.ox + r2.w /\ r2.ox < r1.ox + r1.w
    /\ r1.oy < r2.oy + r2.h /\ r2.oy < r1.oy + r1.h

RECURSIVE SumAreas(_)
SumAreas(rs) ==
    IF rs = {} THEN 0
    ELSE LET r == CHOOSE r \in rs : TRUE IN r.w * r.h + SumAreas(rs \ {r})

GridPicked == pc = "grid" /\ width > 0 /\ height > 0 /\ tile_size > 0

\* C6: for a level of positive size and a positive tile size, the rectangles
\* of the grid have positive size, do not overlap pairwise, have areas adding
\* up to width * height, and those of the last column are width mod tileSize
\* wide, or tileSize wide when that is 0.
C6_GridPartition ==
    GridPicked =>
        /\ Cardinality(GridRects) = columns * rows
        /\ \A r \in GridRects : r.w > 0 /\ r.h > 0
        /\ \A r1 \in GridRects : \A r2 \in GridRects : r1 # r2 => ~Overlap(r1, r2)
        /\ SumAreas(GridRects) = CurLevel.width * CurLevel.height
        /\ \A y \in 0..(rows - 1) :
              TileRect(CurLevel, tile_size, columns - 1, y).w =
                 IF CurLevel.width % tile_size = 0 THEN tile_size
                 ELSE CurLevel.width % tile_size

C6_Witness ==
    /\ GridPicked
    /\ columns >= 2 /\ rows >= 2
    /\ CurLevel.width % tile_size # 0
    /\ CurLevel.height % tile_size = 0

\* an invocation has just saved a raster joined from tiles each of the size
\* of its rectangle, each showing its own (column, row)
JoinedExactTiles ==
    /\ pc = "idle" /\ result = "saved" /\ tile_size > 0
    /\ \A i \in 1..Len(Tiles) :
          LET c == cache[OutPath(Tiles[i][1], Tiles[i][2])]
              r == TileRect(CurLevel, tile_size, Tiles[i][1], Tiles[i][2])
          IN  c.kind = "body" /\ c.w = r.w /\ c.h = r.h /\ c.tag = Tiles[i]

\* C7: join_tiles on such a cache returns a raster of exactly the level's
\* width by height in which pixel (px, py) shows tile
\* (px div tileSize, py div tileSize).
C7_Composition ==
    JoinedExactTiles =>
        /\ out.w = CurLevel.width
        /\ out.h = CurLevel.height
        /\ DOMAIN out.px = (0..(CurLevel.width - 1)) \X (0..(CurLevel.height - 1))
        /\ \A p \in DOMAIN out.px :
              out.px[p] = <<p[1] \div tile_size, p[2] \div tile_size>>

C7_Witness ==
    /\ JoinedExactTiles
    /\ columns >= 2 /\ rows >= 2
    /\ CurLevel.width % tile_size # 0

FolderBuilt == pc \in {"folder", "grid"} /\ width > 0 /\ height > 0

\* C8: for positive base dimensions the level list is non-empty, ends with
\* the base size, and each entry is the ceiling half of the next.
C8_LevelSequence ==
    FolderBuilt =>
        /\ Len(levels) > 0
        /\ levels[Len(levels)] = [width |-> width, height |-> height]
        /\ \A i \in 1..(Len(levels) - 1) :
              /\ levels[i].width = CeilDiv(levels[i + 1].width, 2)
              /\ levels[i].height = CeilDiv(levels[i + 1].height, 2)

\* C9: with a non-positive tile size or base dimension no raster is saved.
C9_MetadataValidated ==
    (tile_size <= 0 \/ width <= 0 \/ height <= 0) => result # "saved"

====
